---- MODULE Spec2Model ----
(***************************************************************************)
(* Model of library/cloudflare_ratelimit.py: the Ansible module that       *)
(* reconciles one Cloudflare rate-limit rule (main and the CF_API class)   *)
(* against the rules the zone already holds.                               *)
(*                                                                         *)
(* The remote service is state of the model: `store` is the ordered list   *)
(* that zones.rate_limits.get returns, post appends a rule under a fresh   *)
(* id, put replaces the rule of the given id, and a rule is listed with   *)
(* the fields it was written with.  Every remote call is one atomic step   *)
(* and may fail with CloudFlareAPIError.  Invocations are the processes of *)
(* Procs; their local computation between two remote calls is folded into  *)
(* the step of the preceding call.                                         *)
(***************************************************************************)
EXTENDS Integers, Sequences, FiniteSets, TLC

\* ------------------------------------------------------------------------
\* Program constants (cloudflare_ratelimit.py lines 31-35)
\* ------------------------------------------------------------------------
DEFAULT_ERROR_MSG == "<error>This request has been rate-limited.</error>"
THRESHOLD_MIN == 2
PERIOD_MIN == 2
THRESHOLD_MAX == 1000000
PERIOD_MAX == 86400

\* ------------------------------------------------------------------------
\* Bounds of the model
\* ------------------------------------------------------------------------
\* number of invocations started in one behaviour
MaxRuns == 2
\* number of rules the zone holds before the first invocation
MaxInitRules == 1

Procs == {1, 2}

\* ------------------------------------------------------------------------
\* Values
\* ------------------------------------------------------------------------
\* Python's None / False as returned by get_existing_ratelimit_id and
\* create_ratelimit; a record so that it compares with rule records.
None == [none |-> TRUE]
PyFalse == [false |-> TRUE]

\* An element of a type='list' parameter is an int or a str (a sequence of
\* characters).
IntElem(n) == [t |-> "int", v |-> n]
StrElem(s) == [t |-> "str", s |-> s]

Digits == <<"0", "1", "2", "3", "4", "5", "6", "7", "8", "9">>

DigitVal(c) == (CHOOSE i \in 1..10 : Digits[i] = c) - 1

IsDigit(c) == \E i \in 1..10 : Digits[i] = c

RECURSIVE DecVal(_)
DecVal(s) == IF s = <<>> THEN 0
             ELSE 10 * DecVal(SubSeq(s, 1, Len(s) - 1)) + DigitVal(s[Len(s)])

\* int(x) of line 153: an int is kept, a str of decimal digits is parsed,
\* any other str raises ValueError.
IntRaises(x) == x.t = "str" /\ (x.s = <<>> \/ \E i \in 1..Len(x.s) : ~IsDigit(x.s[i]))

PyInt(x) == IF x.t = "int" THEN x.v ELSE DecVal(x.s)

\* ------------------------------------------------------------------------
\* main: argument_spec defaults (lines 121-141)
\* ------------------------------------------------------------------------
ZoneName == "example.com"
UrlA == "*.example.com/login"
UrlB == "*.example.com/api"

DefaultParams ==
    [account_email |-> None, account_api_token |-> None,
     zone_identifier |-> ZoneName,
     state |-> "present",
     description |-> "",
     disabled |-> FALSE,
     threshold |-> 60,
     period |-> 60,
     match_method |-> <<"GET", "POST">>,
     match_schemes |-> <<"HTTP", "HTTPS">>,
     match_url |-> UrlA,
     match_response_status |-> <<IntElem(401)>>,
     match_response_origin |-> TRUE,
     action_mode |-> "ban",
     action_timeout |-> 86400,
     action_body |-> DEFAULT_ERROR_MSG,
     action_content_type |-> "text/xml"]

\* match_response_status_sanitized (lines 153-154)
Sanitized(status) == [i \in 1..Len(status) |-> PyInt(status[i])]

SanitizeRaises(status) == \E i \in 1..Len(status) : IntRaises(status[i])

\* match dict (lines 157-165)
MatchOf(params) ==
    [request |-> [methods |-> params.match_method,
                  schemes |-> params.match_schemes,
                  url |-> params.match_url],
     response |-> [status |-> Sanitized(params.match_response_status),
                   origin_traffic |-> params.match_response_origin]]

\* action dict (lines 167-173)
ActionOf(params) ==
    [mode |-> params.action_mode,
     timeout |-> params.action_timeout,
     response |-> [content_type |-> params.action_content_type,
                   body |-> params.action_body]]

\* DataOf with threshold and period handed over in each other's place
DataOfSwapped(params) ==
    [disabled |-> params.disabled,
     description |-> params.description,
     period |-> params.threshold,
     threshold |-> params.period,
     action |-> ActionOf(params),
     match |-> MatchOf(params)]

\* data dict of create_ratelimit (lines 67-73), from the arguments main
\* passes (lines 194-199)
DataOf(params) ==
    [disabled |-> params.disabled,
     description |-> params.description,
     period |-> params.period,
     threshold |-> params.threshold,
     action |-> ActionOf(params),
     match |-> MatchOf(params)]

\* ThresholdBad with "and" for "or"
ThresholdBadAnd(threshold) == threshold < THRESHOLD_MIN /\ threshold > THRESHOLD_MAX

\* the checks of lines 178 and 182
ThresholdBad(threshold) == threshold < THRESHOLD_MIN \/ threshold > THRESHOLD_MAX

PeriodBad(period) == period < PERIOD_MIN \/ period > PERIOD_MAX

\* ------------------------------------------------------------------------
\* The remote rule list
\* ------------------------------------------------------------------------
\* a rule as the service lists it: the data fields plus the id
RuleOf(id, data) ==
    [id |-> id,
     disabled |-> data.disabled,
     description |-> data.description,
     period |-> data.period,
     threshold |-> data.threshold,
     action |-> data.action,
     match |-> data.match]

\* zones.rate_limits.post(zoneid, data=data): the service appends the rule
\* under a fresh id
StorePost(rules, id, data) == Append(rules, RuleOf(id, data))

\* zones.rate_limits.put(zoneid, id, data=data): the service replaces the
\* rule of that id in place
StorePut(rules, id, data) ==
    [i \in 1..Len(rules) |-> IF rules[i].id = id THEN RuleOf(id, data) ELSE rules[i]]

\* zones.get(params=dict(name=zone)): the zones of that name
ZonesGet(zone) == IF zone = ZoneName THEN <<[id |-> "zone-1"]>> ELSE <<>>

\* ------------------------------------------------------------------------
\* CF_API
\* ------------------------------------------------------------------------
\* get_existing_ratelimit_id that keeps looping and returns the last match
get_existing_last(limits, url) ==
    IF \E i \in 1..Len(limits) : limits[i].match.request.url = url
    THEN limits[CHOOSE i \in 1..Len(limits) :
                  /\ limits[i].match.request.url = url
                  /\ \A j \in (i + 1)..Len(limits) : limits[j].match.request.url # url]
    ELSE None

\* get_existing_ratelimit_id that finds nothing
get_existing_never(limits, url) == None

\* get_existing_ratelimit_id (lines 90-100): the first listed rule of that url
get_existing_ratelimit_id(limits, url) ==
    IF \E i \in 1..Len(limits) : limits[i].match.request.url = url
    THEN limits[CHOOSE i \in 1..Len(limits) :
                  /\ limits[i].match.request.url = url
                  /\ \A j \in 1..(i - 1) : limits[j].match.request.url # url]
    ELSE None

\* CompareFields without the description
CompareFieldsNoDescription == <<"action", "match", "disabled", "period",
                                "threshold", "disabled">>

\* compare_existing_ratelimit whose the_same is overwritten by every field,
\* so that the last field decides
compare_last_field_only(ratelimit, proposed_changes) ==
    ratelimit["description"] = proposed_changes["description"]

\* CompareFields without the action
CompareFieldsNoAction == <<"match", "disabled", "period",
                           "threshold", "disabled", "description">>

\* compare_existing_ratelimit (lines 102-116)
CompareFields == <<"action", "match", "disabled", "period",
                   "threshold", "disabled", "description">>

compare_existing_ratelimit(ratelimit, proposed_changes) ==
    \A k \in 1..Len(CompareFields) :
        ratelimit[CompareFields[k]] = proposed_changes[CompareFields[k]]

\* Decide without the "not" of line 80
DecideInverted(existing_id, data, update) ==
    IF update /\ existing_id # None
    THEN IF compare_existing_ratelimit(existing_id, data) THEN "put" ELSE "false"
    ELSE "post"

\* Decide that never takes the update branch
DecideNoUpdate(existing_id, data, update) == "post"

\* Decide without the "update and" of line 78
DecideIgnoresUpdate(existing_id, data, update) ==
    IF existing_id # None
    THEN IF ~compare_existing_ratelimit(existing_id, data) THEN "put" ELSE "false"
    ELSE "post"

\* the branch create_ratelimit takes after the list (lines 78-88)
Decide(existing_id, data, update) ==
    IF update /\ existing_id # None
    THEN IF ~compare_existing_ratelimit(existing_id, data) THEN "put" ELSE "false"
    ELSE "post"

\* ------------------------------------------------------------------------
\* Inputs
\* ------------------------------------------------------------------------
MissingZone == "missing.org"

\* the parameters of playbook tasks: the defaults with one parameter set;
\* the two upper bounds come together with a zone that does not exist, and
\* state absent with a status code given as a string
MainInputs ==
    {DefaultParams}
    \cup {[DefaultParams EXCEPT !.threshold = t] :
              t \in {THRESHOLD_MIN - 1, THRESHOLD_MIN, THRESHOLD_MAX + 1}}
    \cup {[DefaultParams EXCEPT !.period = t] :
              t \in {PERIOD_MIN - 1, PERIOD_MIN, PERIOD_MAX + 1}}
    \cup {[DefaultParams EXCEPT !.threshold = THRESHOLD_MAX, !.period = PERIOD_MAX,
                                !.zone_identifier = MissingZone],
          [DefaultParams EXCEPT !.disabled = TRUE],
          [DefaultParams EXCEPT !.description = "login"],
          [DefaultParams EXCEPT !.action_mode = "simulate"],
          [DefaultParams EXCEPT !.match_method = <<"POST">>],
          [DefaultParams EXCEPT !.state = "absent",
                                !.match_response_status = <<StrElem(<<"4", "0", "1">>)>>],
          [DefaultParams EXCEPT !.match_response_status = <<StrElem(<<"a", "b", "c">>)>>],
          [DefaultParams EXCEPT !.threshold = THRESHOLD_MIN - 1,
                                !.match_response_status = <<StrElem(<<"a", "b", "c">>)>>]}

\* the arguments of a caller that uses CF_API.create_ratelimit itself
DirectInputs == {DefaultParams}

\* the rules a zone may hold before the first invocation
InitData ==
    {DataOf(q) : q \in {DefaultParams,
                        [DefaultParams EXCEPT !.threshold = THRESHOLD_MIN],
                        [DefaultParams EXCEPT !.match_url = UrlB]}}

InitStores ==
    UNION {[1..n -> InitData] : n \in 0..MaxInitRules}

\* ------------------------------------------------------------------------
\* State
\* ------------------------------------------------------------------------
VARIABLES
    store,      \* the zone's rate limits, in the order the service lists them
    nextId,     \* the id the service gives the next rule
    runs,       \* invocations started so far
    pc,         \* pc[p]: where invocation p stands
    args,       \* args[p]: entry point, module.params, HAS_CF, update
    limits,     \* limits[p]: what list_zone_ratelimits returned to p
    existing,   \* existing[p]: existing_id of create_ratelimit
    results,    \* results[p]: what create_ratelimit returned
    outcome,    \* outcome[p]: how the invocation ended
    calls,      \* calls[p]: the remote calls p has made, in order, each with
                \* its arguments and whether it answered
    last        \* the desired rule of the invocation that ended most recently,
                \* if it ran with update set and returned a result

vars == <<store, nextId, runs, pc, args, limits, existing, results, outcome, calls, last>>

NoArgs == [via |-> "none"]
NoOutcome == [kind |-> "none"]

Init ==
    /\ \E rules \in InitStores :
          store = [i \in 1..Len(rules) |-> RuleOf(i, rules[i])]
    /\ nextId = Len(store) + 1
    /\ runs = 0
    /\ pc = [p \in Procs |-> "idle"]
    /\ args = [p \in Procs |-> NoArgs]
    /\ limits = [p \in Procs |-> <<>>]
    /\ existing = [p \in Procs |-> None]
    /\ results = [p \in Procs |-> None]
    /\ outcome = [p \in Procs |-> NoOutcome]
    /\ calls = [p \in Procs |-> <<>>]
    /\ last = None

\* the desired rule of invocation p (none when line 153 raised)
Data(p) ==
    IF SanitizeRaises(args[p].params.match_response_status) THEN None
    ELSE DataOf(args[p].params)

Url(p) == args[p].params.match_url

\* module.exit_json / module.fail_json / an exception that leaves the entry
\* point
ExitJson(changed, res) == [kind |-> "exit_json", changed |-> changed, results |-> res]
FailJson(msg) == [kind |-> "fail_json", msg |-> msg]
Raised(exc) == [kind |-> "raise", exc |-> exc]

\* fail_json with a message formatted from an exception ('... %s' % e), and
\* an exception with its message; the message is kept as its parts
FailJsonWith(msg, detail) == [kind |-> "fail_json", msg |-> msg, detail |-> detail]
RaisedWith(exc, detail) == [kind |-> "raise", exc |-> exc, detail |-> detail]

\* what str(e) of a CloudFlareAPIError may read
ErrorDetails == {"forbidden", "unavailable"}

\* "Zone '%s' not found" % zone (line 49)
ZoneNotFound(zone) == <<"Zone '", zone, "' not found">>
Returned(value) == [kind |-> "return", value |-> value]

\* Finish without the "not" of line 200
FinishInverted(p, res) ==
    IF args[p].via = "main"
    THEN IF res # PyFalse THEN ExitJson(FALSE, None) ELSE ExitJson(TRUE, res)
    ELSE Returned(res)

\* the end of main after create_ratelimit returned (lines 200-202); a
\* direct caller gets the return value
Finish(p, res) ==
    IF args[p].via = "main"
    THEN IF res = PyFalse THEN ExitJson(FALSE, None) ELSE ExitJson(TRUE, res)
    ELSE Returned(res)

\* an exception raised inside the try block of main (lines 203-206); a
\* direct caller sees the exception
Failure(p, exc, detail) ==
    IF args[p].via = "main"
    THEN IF exc = "CloudFlareAPIError" THEN FailJsonWith("Errr ", detail)
         ELSE FailJsonWith("Parameter issue, ", detail)
    ELSE RaisedWith(exc, detail)

\* one remote call: the id and data passed (0 and None where there is none),
\* whether it answered or raised, and the error it raised with
Call(op, id, data, ok) ==
    [op |-> op, id |-> id, data |-> data, ok |-> ok, err |-> ""]

FailedCall(op, id, data, e) ==
    [op |-> op, id |-> id, data |-> data, ok |-> FALSE, err |-> e]

End(p, o) ==
    /\ pc' = [pc EXCEPT ![p] = "done"]
    /\ outcome' = [outcome EXCEPT ![p] = o]

\* ------------------------------------------------------------------------
\* Steps of one invocation
\* ------------------------------------------------------------------------
\* Which of the free processes a new invocation becomes makes no
\* difference: it is the first one unless that one is running.
Free(p) == pc[p] = "idle" /\ \A q \in Procs : q < p => pc[q] # "idle"

\* ansible runs the module: main() with update left at its default, up to
\* the try block (lines 119-189)
Main(p) ==
    /\ Free(p)
    /\ runs < MaxRuns
    /\ runs' = runs + 1
    /\ \E q \in MainInputs, has \in BOOLEAN :
          /\ ~has => q = DefaultParams
          /\ args' = [args EXCEPT ![p] = [via |-> "main", params |-> q,
                                          HAS_CF |-> has, update |-> TRUE]]
          /\ IF SanitizeRaises(q.match_response_status)
             THEN End(p, Raised("ValueError"))
             ELSE IF ThresholdBad(q.threshold)
             THEN End(p, FailJson("Threshold must be between 2 and 1000000"))
             ELSE IF PeriodBad(q.period)
             THEN End(p, FailJson("Period must be between 2 and 86400"))
             ELSE IF ~has
             THEN End(p, FailJson("cloudflare pip module required"))
             ELSE /\ pc' = [pc EXCEPT ![p] = "zone"]
                  /\ UNCHANGED outcome
    /\ UNCHANGED <<store, nextId, limits, existing, results, calls, last>>

\* a caller builds CF_API(zone) and calls create_ratelimit, update given
StartDirect(p) ==
    /\ Free(p)
    /\ runs < MaxRuns
    /\ \E q \in DirectInputs, u \in BOOLEAN :
          args' = [args EXCEPT ![p] = [via |-> "direct", params |-> q,
                                       HAS_CF |-> TRUE, update |-> u]]
    /\ runs' = runs + 1
    /\ pc' = [pc EXCEPT ![p] = "zone"]
    /\ UNCHANGED <<store, nextId, limits, existing, results, outcome, calls, last>>

\* ZoneLookup whose except clause misses the IndexError of line 47
ZoneLookupWrongExcept(p) ==
    /\ pc[p] = "zone"
    /\ calls' = [calls EXCEPT ![p] = Append(@, Call("zones.get", 0, None, TRUE))]
    /\ IF ZonesGet(args[p].params.zone_identifier) = <<>>
       THEN End(p, Raised("IndexError"))
       ELSE /\ pc' = [pc EXCEPT ![p] = "list"]
            /\ UNCHANGED outcome
    /\ UNCHANGED <<store, nextId, runs, args, limits, existing, results, last>>

\* CF_API.__init__ (lines 40-49): the zone lookup answers
ZoneLookup(p) ==
    /\ pc[p] = "zone"
    /\ calls' = [calls EXCEPT ![p] = Append(@, Call("zones.get", 0, None, TRUE))]
    /\ IF ZonesGet(args[p].params.zone_identifier) = <<>>
       THEN End(p, Failure(p, "UserWarning",
                           ZoneNotFound(args[p].params.zone_identifier)))
       ELSE /\ pc' = [pc EXCEPT ![p] = "list"]
            /\ UNCHANGED outcome
    /\ UNCHANGED <<store, nextId, runs, args, limits, existing, results, last>>

\* a remote call raises CloudFlareAPIError
ApiError(p, at, op, id, data) ==
    /\ pc[p] = at
    /\ \E e \in ErrorDetails :
          /\ calls' = [calls EXCEPT ![p] = Append(@, FailedCall(op, id, data, e))]
          /\ End(p, Failure(p, "CloudFlareAPIError", <<e>>))
    /\ UNCHANGED <<store, nextId, runs, args, limits, existing, results, last>>

ZoneLookupFails(p) == ApiError(p, "zone", "zones.get", 0, None)

\* ListAndDecide that asks the service for nothing and takes the zone to be
\* empty
ListAndDecideUnlisted(p) ==
    /\ pc[p] = "list"
    /\ limits' = [limits EXCEPT ![p] = <<>>]
    /\ existing' = [existing EXCEPT ![p] = None]
    /\ pc' = [pc EXCEPT ![p] = "post"]
    /\ UNCHANGED <<store, nextId, runs, args, results, outcome, calls, last>>

\* create_ratelimit up to its remote write (lines 67-80, 84-85, 90-100):
\* the list answers, the existing rule is looked up and compared
ListAndDecide(p) ==
    /\ pc[p] = "list"
    /\ calls' = [calls EXCEPT ![p] = Append(@, Call("list", 0, None, TRUE))]
    /\ limits' = [limits EXCEPT ![p] = store]
    /\ LET existing_id == get_existing_ratelimit_id(store, Url(p))
           branch == Decide(existing_id, Data(p), args[p].update)
       IN /\ existing' = [existing EXCEPT ![p] = existing_id]
          /\ IF branch = "false"
             THEN /\ results' = [results EXCEPT ![p] = PyFalse]
                  /\ End(p, Finish(p, PyFalse))
             ELSE /\ pc' = [pc EXCEPT ![p] = branch]
                  /\ UNCHANGED <<results, outcome>>
    /\ UNCHANGED <<store, nextId, runs, args, last>>

\* ListFails that swallows the error and goes on as if no rule was listed
ListFailsSwallowed(p) ==
    /\ pc[p] = "list"
    /\ \E e \in ErrorDetails :
          calls' = [calls EXCEPT ![p] = Append(@, FailedCall("list", 0, None, e))]
    /\ pc' = [pc EXCEPT ![p] = "post"]
    /\ UNCHANGED <<store, nextId, runs, args, limits, existing, results, outcome, last>>

ListFails(p) == ApiError(p, "list", "list", 0, None)

\* Put without the return of line 81: the code runs on into the post
PutFallsThrough(p) ==
    /\ pc[p] = "put"
    /\ calls' = [calls EXCEPT ![p] = Append(@, Call("put", existing[p].id, Data(p), TRUE))]
    /\ store' = StorePut(store, existing[p].id, Data(p))
    /\ pc' = [pc EXCEPT ![p] = "post"]
    /\ UNCHANGED <<nextId, runs, args, limits, existing, results, outcome, last>>

\* Put that deletes the existing rule and posts the new one
PutRecreates(p) ==
    /\ pc[p] = "put"
    /\ calls' = [calls EXCEPT ![p] = Append(@, Call("put", existing[p].id, Data(p), TRUE))]
    /\ store' = Append(SelectSeq(store, LAMBDA r : r.id # existing[p].id),
                       RuleOf(nextId, Data(p)))
    /\ nextId' = nextId + 1
    /\ LET res == RuleOf(nextId, Data(p)) IN
          /\ results' = [results EXCEPT ![p] = res]
          /\ End(p, Finish(p, res))
    /\ UNCHANGED <<runs, args, limits, existing, last>>

\* Put on the id of the first listed rule, whatever its url
PutWrongId(p) ==
    /\ pc[p] = "put"
    /\ calls' = [calls EXCEPT ![p] = Append(@, Call("put", limits[p][1].id, Data(p), TRUE))]
    /\ store' = StorePut(store, limits[p][1].id, Data(p))
    /\ LET res == RuleOf(limits[p][1].id, Data(p)) IN
          /\ results' = [results EXCEPT ![p] = res]
          /\ End(p, Finish(p, res))
    /\ UNCHANGED <<nextId, runs, args, limits, existing, last>>

\* rate_limits.put answers (lines 81-83)
Put(p) ==
    /\ pc[p] = "put"
    /\ calls' = [calls EXCEPT ![p] = Append(@, Call("put", existing[p].id, Data(p), TRUE))]
    /\ store' = StorePut(store, existing[p].id, Data(p))
    /\ LET res == RuleOf(existing[p].id, Data(p)) IN
          /\ results' = [results EXCEPT ![p] = res]
          /\ End(p, Finish(p, res))
    /\ UNCHANGED <<nextId, runs, args, limits, existing, last>>

PutFails(p) == ApiError(p, "put", "put", existing[p].id, Data(p))

\* Post that looks again and creates nothing when the url has a rule by now
PostUnlessExists(p) ==
    /\ pc[p] = "post"
    /\ IF \E i \in 1..Len(store) : store[i].match.request.url = Url(p)
       THEN /\ results' = [results EXCEPT ![p] = PyFalse]
            /\ End(p, Finish(p, PyFalse))
            /\ UNCHANGED <<store, nextId, calls>>
       ELSE /\ calls' = [calls EXCEPT ![p] = Append(@, Call("post", 0, Data(p), TRUE))]
            /\ store' = StorePost(store, nextId, Data(p))
            /\ nextId' = nextId + 1
            /\ LET res == RuleOf(nextId, Data(p)) IN
                  /\ results' = [results EXCEPT ![p] = res]
                  /\ End(p, Finish(p, res))
    /\ UNCHANGED <<runs, args, limits, existing, last>>

\* rate_limits.post answers (line 88)
Post(p) ==
    /\ pc[p] = "post"
    /\ calls' = [calls EXCEPT ![p] = Append(@, Call("post", 0, Data(p), TRUE))]
    /\ store' = StorePost(store, nextId, Data(p))
    /\ nextId' = nextId + 1
    /\ LET res == RuleOf(nextId, Data(p)) IN
          /\ results' = [results EXCEPT ![p] = res]
          /\ End(p, Finish(p, res))
    /\ UNCHANGED <<runs, args, limits, existing, last>>

\* PostFails that tries the post again
PostFailsRetried(p) ==
    /\ pc[p] = "post"
    /\ \E e \in ErrorDetails :
          calls' = [calls EXCEPT ![p] = Append(@, FailedCall("post", 0, Data(p), e))]
    /\ UNCHANGED <<store, nextId, runs, pc, args, limits, existing, results, outcome, last>>

PostFails(p) == ApiError(p, "post", "post", 0, Data(p))

\* the process ends; its locals are gone
Exit(p) ==
    /\ pc[p] = "done"
    /\ last' = IF args[p].update /\ outcome[p].kind \in {"exit_json", "return"}
               THEN Data(p) ELSE None
    /\ pc' = [pc EXCEPT ![p] = "idle"]
    /\ args' = [args EXCEPT ![p] = NoArgs]
    /\ limits' = [limits EXCEPT ![p] = <<>>]
    /\ existing' = [existing EXCEPT ![p] = None]
    /\ results' = [results EXCEPT ![p] = None]
    /\ outcome' = [outcome EXCEPT ![p] = NoOutcome]
    /\ calls' = [calls EXCEPT ![p] = <<>>]
    /\ UNCHANGED <<store, nextId, runs>>

Step(p) ==
    \/ Main(p)
    \/ StartDirect(p)
    \/ ZoneLookup(p)
    \/ ZoneLookupFails(p)
    \/ ListAndDecide(p)
    \/ ListFails(p)
    \/ Put(p)
    \/ PutFails(p)
    \/ Post(p)
    \/ PostFails(p)
    \/ Exit(p)

\* invocations of any number of playbooks, interleaved at their remote calls
Next == \E p \in Procs : Step(p)

Spec == Init /\ [][Next]_vars

\* one invocation at a time: an invocation starts when no other is running
Alone(p) == \A q \in Procs \ {p} : pc[q] = "idle"

SeqStep(p) ==
    \/ Alone(p) /\ Main(p)
    \/ Alone(p) /\ StartDirect(p)
    \/ ZoneLookup(p)
    \/ ZoneLookupFails(p)
    \/ ListAndDecide(p)
    \/ ListFails(p)
    \/ Put(p)
    \/ PutFails(p)
    \/ Post(p)
    \/ PostFails(p)
    \/ Exit(p)

SeqNext == \E p \in Procs : SeqStep(p)

SeqSpec == Init /\ [][SeqNext]_vars

\* ------------------------------------------------------------------------
\* Vocabulary of the properties
\* ------------------------------------------------------------------------
CallsOf(p, op) == {i \in 1..Len(calls[p]) : calls[p][i].op = op}

Count(p, op) == Cardinality(CallsOf(p, op))

\* list_zone_ratelimits answered p; limits[p] is what it returned
Listed(p) == \E i \in CallsOf(p, "list") : calls[p][i].ok

\* p ended with a result, not with a failure or an exception
Succeeded(p) == pc[p] = "done" /\ outcome[p].kind \in {"exit_json", "return"}

LastCall(p) == calls[p][Len(calls[p])]

WithUrl(rules, url) == {i \in 1..Len(rules) : rules[i].match.request.url = url}

Ids(rules) == {rules[i].id : i \in 1..Len(rules)}

\* the six compared fields of the design, one by one
SameFields(rule, data) ==
    /\ rule.action = data.action
    /\ rule.match = data.match
    /\ rule.disabled = data.disabled
    /\ rule.period = data.period
    /\ rule.threshold = data.threshold
    /\ rule.description = data.description

\* d carries what the task of p asked for, parameter by parameter
IsDesired(p, d) ==
    LET q == args[p].params IN
    /\ d.description = q.description
    /\ d.disabled = q.disabled
    /\ d.threshold = q.threshold
    /\ d.period = q.period
    /\ d.match.request.url = q.match_url
    /\ d.match.request.methods = q.match_method
    /\ d.match.request.schemes = q.match_schemes
    /\ d.match.response.origin_traffic = q.match_response_origin
    /\ d.action.mode = q.action_mode
    /\ d.action.timeout = q.action_timeout
    /\ d.action.response.body = q.action_body
    /\ d.action.response.content_type = q.action_content_type

\* the three results of a reconciliation
Unchanged(p) ==
    /\ Succeeded(p)
    /\ results[p] = PyFalse
    /\ args[p].via = "main" => outcome[p] = ExitJson(FALSE, None)

Created(p) ==
    /\ Succeeded(p)
    /\ LastCall(p).op = "post" /\ LastCall(p).ok
    /\ results[p] # PyFalse /\ IsDesired(p, results[p])
    /\ results[p].id \notin Ids(limits[p])
    /\ args[p].via = "main" => outcome[p] = ExitJson(TRUE, results[p])

Updated(p) ==
    /\ Succeeded(p)
    /\ LastCall(p).op = "put" /\ LastCall(p).ok
    /\ results[p] # PyFalse /\ IsDesired(p, results[p])
    /\ results[p].id = LastCall(p).id
    /\ args[p].via = "main" => outcome[p] = ExitJson(TRUE, results[p])

\* ------------------------------------------------------------------------
\* Properties
\* ------------------------------------------------------------------------
\* C1 Idempotence (SeqSpec): an invocation with update set that returns a
\* result right after another such invocation of the same desired rule
\* reports Unchanged and has issued neither post nor put.
C1_Idempotence ==
    \A p \in Procs :
        (Succeeded(p) /\ args[p].update /\ last = Data(p)) =>
            /\ Unchanged(p)
            /\ Count(p, "post") = 0
            /\ Count(p, "put") = 0

\* the first of the two invocations created the rule, the second found it
C1_Witness ==
    \E p \in Procs :
        /\ Succeeded(p) /\ args[p].update /\ last = Data(p)
        /\ runs = 2 /\ results[p] = PyFalse
        /\ Len(store) = 2
        /\ store[2] = RuleOf(2, Data(p))
        /\ store[1].match.request.url # Url(p)

\* C2 Creation (Spec): when the list came back empty the invocation calls
\* post exactly once, with the desired rule as data, never put, and when
\* the post answers the result is Created.
C2_Creation ==
    \A p \in Procs :
        (pc[p] = "done" /\ Listed(p) /\ limits[p] = <<>>) =>
            /\ Count(p, "post") = 1
            /\ Count(p, "put") = 0
            /\ \A i \in CallsOf(p, "post") : IsDesired(p, calls[p][i].data)
            /\ LastCall(p).ok => Created(p)

C2_Witness ==
    \E p \in Procs :
        /\ pc[p] = "done" /\ Listed(p) /\ limits[p] = <<>>
        /\ Created(p)
        /\ args[p].via = "main"
        /\ args[p].params.threshold # args[p].params.period
        /\ Len(store) = 1 /\ IsDesired(p, store[1])

\* C3 Update-on-diff (Spec): with update set, when the list holds exactly
\* one rule of the desired url and its threshold is not the desired one,
\* the invocation calls put exactly once, on that rule's id, never post, and
\* when the put answers the result is Updated.
C3_UpdateOnDiff ==
    \A p \in Procs :
        (/\ pc[p] = "done" /\ Listed(p) /\ args[p].update
         /\ Cardinality(WithUrl(limits[p], Url(p))) = 1
         /\ \A i \in WithUrl(limits[p], Url(p)) :
                limits[p][i].threshold # args[p].params.threshold) =>
            /\ Count(p, "put") = 1
            /\ Count(p, "post") = 0
            /\ \A i \in CallsOf(p, "put"), j \in WithUrl(limits[p], Url(p)) :
                  /\ calls[p][i].id = limits[p][j].id
                  /\ IsDesired(p, calls[p][i].data)
            /\ LastCall(p).ok => Updated(p)

C3_Witness ==
    \E p \in Procs :
        /\ pc[p] = "done" /\ Listed(p) /\ args[p].update
        /\ Cardinality(WithUrl(limits[p], Url(p))) = 1
        /\ \A i \in WithUrl(limits[p], Url(p)) :
               limits[p][i].threshold # args[p].params.threshold
        /\ Updated(p)
        /\ Len(store) = 1 /\ store[1].threshold = args[p].params.threshold

\* C4 as stated (SeqSpec): when the list holds some rule equal to the desired
\* rule on the six compared fields, the invocation calls neither post nor
\* put, leaves the rules as they were and reports Unchanged.
C4_AnyEqualRuleIsNoOp ==
    \A p \in Procs :
        (/\ pc[p] = "done" /\ Listed(p) /\ args[p].update
         /\ \E i \in 1..Len(limits[p]) : SameFields(limits[p][i], Data(p))) =>
            /\ Count(p, "post") = 0
            /\ Count(p, "put") = 0
            /\ store = limits[p]
            /\ Unchanged(p)

\* C4 No-op-on-match, amended (SeqSpec): with update set, when the first
\* listed rule of the desired url equals the desired rule on the six
\* compared fields, the invocation calls neither post nor put, leaves the
\* rules as they were and reports Unchanged.
C4_NoOpOnMatch ==
    \A p \in Procs :
        (/\ pc[p] = "done" /\ Listed(p) /\ args[p].update
         /\ \E i \in WithUrl(limits[p], Url(p)) :
               /\ \A j \in WithUrl(limits[p], Url(p)) : i <= j
               /\ SameFields(limits[p][i], Data(p))) =>
            /\ Count(p, "post") = 0
            /\ Count(p, "put") = 0
            /\ store = limits[p]
            /\ Unchanged(p)

\* the first rule of the url matches while a later rule of the url does not
C4_Witness ==
    \E p \in Procs :
        /\ pc[p] = "done" /\ Listed(p) /\ args[p].update
        /\ Unchanged(p)
        /\ Len(limits[p]) = 2
        /\ WithUrl(limits[p], Url(p)) = {1, 2}
        /\ SameFields(limits[p][1], Data(p))
        /\ ~SameFields(limits[p][2], Data(p))

\* C5 At most one mutation (Spec): an invocation makes at most one post or
\* put call in all, and one whose zone lookup found the zone has called list.
C5_AtMostOneMutation ==
    \A p \in Procs :
        /\ Count(p, "post") + Count(p, "put") <= 1
        /\ (/\ pc[p] = "done"
            /\ \E i \in CallsOf(p, "zones.get") : calls[p][i].ok
            /\ ZonesGet(args[p].params.zone_identifier) # <<>>) =>
               Count(p, "list") = 1

C5_Witness ==
    \E p \in Procs :
        /\ pc[p] = "done" /\ Count(p, "list") = 1
        /\ Count(p, "put") = 1 /\ Count(p, "post") = 0
        /\ LastCall(p).ok

\* the position of the first listed rule of that url (0 when there is none)
FirstWithUrl(rules, url) ==
    IF WithUrl(rules, url) = {} THEN 0
    ELSE CHOOSE i \in WithUrl(rules, url) : \A j \in WithUrl(rules, url) : i <= j

InRange(p) ==
    /\ args[p].params.threshold \in 2..1000000
    /\ args[p].params.period \in 2..86400

\* C6 Bounds rejection (Spec): a playbook task whose threshold is outside
\* 2..1000000 or whose period is outside 2..86400 makes no remote call at
\* all and ends in a failure, the bounds message of fail_json when its
\* status codes are numeric; a task with threshold and period inside the
\* ranges (2, 1000000 and 86400 included) is not rejected for its bounds.
C6_BoundsRejection ==
    \A p \in Procs :
        args[p].via = "main" =>
            /\ ~InRange(p) =>
                  /\ pc[p] = "done"
                  /\ calls[p] = <<>>
                  /\ pc[p] = "done" =>
                        /\ outcome[p].kind \in {"fail_json", "raise"}
                        /\ outcome[p].kind = "raise" =>
                              SanitizeRaises(args[p].params.match_response_status)
                        /\ outcome[p].kind = "fail_json" =>
                              outcome[p].msg \in
                                  {"Threshold must be between 2 and 1000000",
                                   "Period must be between 2 and 86400"}
            /\ (InRange(p) /\ pc[p] = "done" /\ outcome[p].kind = "fail_json") =>
                  outcome[p].msg \notin
                      {"Threshold must be between 2 and 1000000",
                       "Period must be between 2 and 86400"}
            /\ (/\ InRange(p) /\ args[p].HAS_CF /\ pc[p] = "done"
                /\ ~SanitizeRaises(args[p].params.match_response_status)) =>
                  Count(p, "zones.get") = 1

C6_Witness ==
    \E p \in Procs :
        /\ args[p].via = "main" /\ pc[p] = "done"
        /\ args[p].params.threshold = 1000001
        /\ outcome[p] = FailJson("Threshold must be between 2 and 1000000")
        /\ calls[p] = <<>>

\* C7 Duplicate-URL defensive match (Spec): when the list holds two or more
\* rules of the desired url the invocation takes the first of them as the
\* existing rule: it does not fail for the duplicates, with update set it
\* compares against that rule, and a put goes to that rule's id.
C7_DuplicateUrlFirstMatch ==
    \A p \in Procs :
        (/\ pc[p] \in {"put", "post", "done"} /\ Listed(p)
         /\ Cardinality(WithUrl(limits[p], Url(p))) >= 2) =>
            LET first == limits[p][FirstWithUrl(limits[p], Url(p))] IN
            /\ existing[p] = first
            /\ \A i \in CallsOf(p, "put") : calls[p][i].id = first.id
            /\ (pc[p] = "done" /\ LastCall(p).ok) => Succeeded(p)
            /\ (pc[p] = "done" /\ args[p].update) =>
                  IF SameFields(first, Data(p))
                  THEN Unchanged(p) /\ Count(p, "put") = 0 /\ Count(p, "post") = 0
                  ELSE Count(p, "put") = 1 /\ Count(p, "post") = 0

\* two rules of the url that differ from the desired rule: the first one
\* is rewritten, the second one stays
C7_Witness ==
    \E p \in Procs :
        /\ Updated(p)
        /\ Len(limits[p]) = 2 /\ WithUrl(limits[p], Url(p)) = {1, 2}
        /\ ~SameFields(limits[p][1], Data(p))
        /\ ~SameFields(limits[p][2], Data(p))
        /\ results[p].id = limits[p][1].id
        /\ Len(store) = 2 /\ store[2] = limits[p][2]
        /\ SameFields(store[1], Data(p))

\* C8 Convergence (SeqSpec): when an invocation with update set has
\* returned a result, the rules hold a rule of the desired url and the
\* first such rule equals the desired rule on the six compared fields.
C8_Convergence ==
    \A p \in Procs :
        (Succeeded(p) /\ args[p].update) =>
            /\ WithUrl(store, Url(p)) # {}
            /\ SameFields(store[FirstWithUrl(store, Url(p))], Data(p))

\* a rule that differed in its description only has been rewritten
C8_Witness ==
    \E p \in Procs :
        /\ Updated(p) /\ args[p].update
        /\ \E i \in WithUrl(limits[p], Url(p)) :
              /\ limits[p][i].description # Data(p).description
              /\ [limits[p][i] EXCEPT !.description = Data(p).description]
                     = RuleOf(limits[p][i].id, Data(p))
        /\ SameFields(store[FirstWithUrl(store, Url(p))], Data(p))

\* C9 Duplicate-creation race (Spec): nothing holds back the post of an
\* invocation that listed no rule of its url: once it has returned it has
\* created its rule and the rule is among the zone's rules, whatever rules
\* of that url other invocations added in between.
C9_CreateAfterStaleList ==
    \A p \in Procs :
        (Succeeded(p) /\ Listed(p) /\ WithUrl(limits[p], Url(p)) = {}) =>
            /\ Created(p)
            /\ \E i \in WithUrl(store, Url(p)) : store[i].id = results[p].id

\* both invocations listed before either created: two rules of one url
C9_Witness ==
    \E p \in Procs, q \in Procs :
        /\ p # q
        /\ Created(p) /\ Created(q)
        /\ Url(p) = Url(q)
        /\ args[p].update /\ args[q].update
        /\ WithUrl(limits[p], Url(p)) = {} /\ WithUrl(limits[q], Url(q)) = {}
        /\ limits[p] = limits[q]
        /\ Cardinality(WithUrl(store, Url(p))) = 2

\* C10 No deletion (Spec): no step of any invocation, state present or
\* absent, takes an id out of the zone's rules.
C10_NoDeletion == [][Ids(store) \subseteq Ids(store')]_vars

\* a task with state absent has run and the rule of its url is still there
C10_Witness ==
    \E p \in Procs :
        /\ Succeeded(p) /\ args[p].params.state = "absent"
        /\ args[p].via = "main"
        /\ WithUrl(limits[p], Url(p)) # {}
        /\ Ids(limits[p]) \subseteq Ids(store)
        /\ WithUrl(store, Url(p)) # {}

\* p made a post or put call that answered
Mutated(p) ==
    \E i \in 1..Len(calls[p]) : calls[p][i].op \in {"post", "put"} /\ calls[p][i].ok

C12_UpdateDecision ==
    \A p \in Procs :
        (/\ pc[p] = "done" /\ Listed(p) /\ args[p].update
         /\ FirstWithUrl(limits[p], Url(p)) # 0) =>
            LET found == limits[p][FirstWithUrl(limits[p], Url(p))]
                differs == \/ found.action # Data(p).action
                           \/ found.match # Data(p).match
                           \/ found.disabled # Data(p).disabled
                           \/ found.period # Data(p).period
                           \/ found.threshold # Data(p).threshold
                           \/ found.description # Data(p).description
            IN /\ differs <=> Count(p, "put") = 1
               /\ Count(p, "put") <= 1 /\ Count(p, "post") = 0
               /\ \A i \in CallsOf(p, "put") :
                     /\ calls[p][i].id = found.id
                     /\ calls[p][i].data = Data(p)
                     /\ calls[p][i].ok => Updated(p)
               /\ ~differs => Unchanged(p) /\ store = limits[p]

\* the found rule differs from the desired one in the action alone
C12_Witness ==
    \E p \in Procs :
        /\ pc[p] = "done" /\ Listed(p) /\ args[p].update
        /\ FirstWithUrl(limits[p], Url(p)) # 0
        /\ LET found == limits[p][FirstWithUrl(limits[p], Url(p))] IN
              /\ found.action # Data(p).action
              /\ found.match = Data(p).match
              /\ found.disabled = Data(p).disabled
              /\ found.period = Data(p).period
              /\ found.threshold = Data(p).threshold
              /\ found.description = Data(p).description
        /\ Updated(p)
        /\ SameFields(store[FirstWithUrl(limits[p], Url(p))], Data(p))

\* C13 Create when update is disabled (SeqSpec): with update false and a
\* rule of the desired url listed, the invocation calls post once with the
\* desired data, after the list, and never put; a post that answers gives
\* Created and the listed rules stay as they were, the new one after them.
C13_CreateWhenUpdateDisabled ==
    \A p \in Procs :
        (/\ pc[p] = "done" /\ Listed(p) /\ ~args[p].update
         /\ FirstWithUrl(limits[p], Url(p)) # 0) =>
            /\ Count(p, "list") = 1 /\ Count(p, "post") = 1
            /\ Count(p, "put") = 0
            /\ \A i \in CallsOf(p, "list"), j \in CallsOf(p, "post") :
                  i < j /\ calls[p][j].data = Data(p)
            /\ LastCall(p).op = "post"
            /\ LastCall(p).ok => Created(p) /\ store = Append(limits[p], results[p])
            /\ ~LastCall(p).ok => store = limits[p]

\* the listed rule already equals the desired one and a second one is made
C13_Witness ==
    \E p \in Procs :
        /\ pc[p] = "done" /\ Listed(p) /\ ~args[p].update
        /\ FirstWithUrl(limits[p], Url(p)) # 0
        /\ SameFields(limits[p][FirstWithUrl(limits[p], Url(p))], Data(p))
        /\ Created(p)
        /\ Len(store) = Len(limits[p]) + 1
        /\ Cardinality(WithUrl(store, Url(p))) >= 2

\* o is how an invocation of p ends when the service refused a call with
\* the detail e: fail_json with the 'Errr' message for a playbook task, the
\* CloudFlareAPIError itself for a direct caller
StoreFailure(p, o, e) ==
    IF args[p].via = "main"
    THEN o.kind = "fail_json" /\ o = FailJsonWith("Errr ", <<e>>)
    ELSE o.kind = "raise" /\ o = RaisedWith("CloudFlareAPIError", <<e>>)

HasFailedList(p) == \E i \in CallsOf(p, "list") : ~calls[p][i].ok

\* C14 List failure is fatal (Spec): the step in which the list call of an
\* invocation fails leaves the rules as they are and ends the invocation
\* with the failure of the service, with one list call and no post or put in
\* its log; from then on the invocation makes no call at all.
C14_ListFailureFatal ==
    [][\A p \in Procs :
          /\ (~HasFailedList(p) /\ HasFailedList(p)') =>
                /\ store' = store
                /\ pc'[p] = "done"
                /\ \E e \in ErrorDetails : StoreFailure(p, outcome'[p], e)
                /\ Count(p, "list")' = 1
                /\ Count(p, "post")' = 0 /\ Count(p, "put")' = 0
          /\ HasFailedList(p) =>
                /\ pc[p] = "done"
                /\ calls'[p] \in {calls[p], <<>>}
                /\ pc'[p] \in {"done", "idle"}]_vars

C14_Witness ==
    \E p \in Procs :
        /\ HasFailedList(p) /\ pc[p] = "done"
        /\ args[p].via = "main"
        /\ outcome[p] = FailJsonWith("Errr ", <<"forbidden">>)
        /\ Len(calls[p]) = 2 /\ Len(store) = 1

\* C15 No retries (Spec): an invocation calls each of list, post and put at
\* most once; a post or put that fails is its last call, and the invocation
\* has ended with the failure of the service carrying the detail of that
\* call.
C15_NoRetries ==
    \A p \in Procs :
        /\ Count(p, "list") <= 1 /\ Count(p, "post") <= 1 /\ Count(p, "put") <= 1
        /\ \A i \in CallsOf(p, "post") \cup CallsOf(p, "put") :
              ~calls[p][i].ok =>
                  /\ i = Len(calls[p])
                  /\ pc[p] = "done"
                  /\ StoreFailure(p, outcome[p], calls[p][i].err)

C15_Witness ==
    \E p \in Procs :
        /\ pc[p] = "done" /\ args[p].via = "main"
        /\ Len(calls[p]) = 3
        /\ LastCall(p).op = "put" /\ ~LastCall(p).ok /\ LastCall(p).err = "unavailable"
        /\ outcome[p] = FailJsonWith("Errr ", <<"unavailable">>)

\* C16 Zone not found (SeqSpec): when the zone lookup answers with no zone of
\* the given name, the invocation ends with the parameter failure naming the
\* zone, not with the failure of the service, and its log holds no list,
\* post or put.
C16_ZoneNotFound ==
    \A p \in Procs :
        (/\ pc[p] = "done"
         /\ \E i \in CallsOf(p, "zones.get") : calls[p][i].ok
         /\ ZonesGet(args[p].params.zone_identifier) = <<>>) =>
            /\ IF args[p].via = "main"
               THEN /\ outcome[p].kind = "fail_json"
                    /\ outcome[p] = FailJsonWith("Parameter issue, ",
                                        ZoneNotFound(args[p].params.zone_identifier))
               ELSE /\ outcome[p].kind = "raise"
                    /\ outcome[p] = RaisedWith("UserWarning",
                                        ZoneNotFound(args[p].params.zone_identifier))
            /\ \A e \in ErrorDetails : ~StoreFailure(p, outcome[p], e)
            /\ Count(p, "list") = 0 /\ Count(p, "post") = 0 /\ Count(p, "put") = 0

C16_Witness ==
    \E p \in Procs :
        /\ pc[p] = "done" /\ args[p].via = "main"
        /\ args[p].params.zone_identifier = MissingZone
        /\ calls[p] = <<Call("zones.get", 0, None, TRUE)>>
        /\ outcome[p].kind = "fail_json" /\ outcome[p].msg = "Parameter issue, "
        /\ outcome[p].detail = <<"Zone '", MissingZone, "' not found">>

\* C17 Step ordering (Spec): every post or put of an invocation comes after
\* its own list call answered, and which of the three branches it takes is
\* fixed by update and by the rules that list returned, whatever the zone
\* holds by the time of the write.
C17_StepOrdering ==
    \A p \in Procs :
        /\ \A i \in CallsOf(p, "post") \cup CallsOf(p, "put") :
              \E j \in CallsOf(p, "list") : j < i /\ calls[p][j].ok
        /\ (Listed(p) /\ pc[p] = "done") =>
              LET f == FirstWithUrl(limits[p], Url(p)) IN
              /\ Count(p, "post") = 1 <=> (~args[p].update \/ f = 0)
              /\ Count(p, "put") = 1 <=>
                    (args[p].update /\ f # 0 /\ ~SameFields(limits[p][f], Data(p)))
              /\ Count(p, "post") + Count(p, "put") <= 1
              /\ \A i \in CallsOf(p, "put") : calls[p][i].id = limits[p][f].id

\* the url had no rule when p listed, has one by the time p posts, and p
\* posts all the same
C17_Witness ==
    \E p \in Procs :
        /\ pc[p] = "done" /\ Listed(p) /\ args[p].update
        /\ WithUrl(limits[p], Url(p)) = {}
        /\ Count(p, "post") = 1 /\ LastCall(p).ok
        /\ \E i \in WithUrl(store, Url(p)) :
              store[i].id \notin Ids(limits[p]) /\ store[i].id < results[p].id

\* C18 as stated (SeqSpec): a playbook task sends the status codes as
\* integers, and when one of them is not numeric it ends in fail_json
\* without any remote call.
C18_StatusCoercion ==
    \A p \in Procs :
        (args[p].via = "main" /\ pc[p] = "done") =>
            IF SanitizeRaises(args[p].params.match_response_status)
            THEN outcome[p].kind = "fail_json" /\ calls[p] = <<>>
            ELSE \A i \in CallsOf(p, "post") \cup CallsOf(p, "put") :
                    \A k \in 1..Len(args[p].params.match_response_status) :
                        calls[p][i].data.match.response.status[k] =
                            PyInt(args[p].params.match_response_status[k])

\* C19 Frame (Spec): a step that changes the zone's rules is the put or the
\* post of one invocation. The put keeps the number of rules and every id in
\* its place and changes no rule but the one it found, which has the desired
\* url before and after. The post leaves every rule as it was and adds one
\* rule, of the desired url and with a fresh id, after them.
C19_Frame ==
    [][store' # store =>
          \E p \in Procs :
              /\ pc'[p] = "done"
              /\ \/ /\ pc[p] = "put"
                    /\ Len(store') = Len(store)
                    /\ \A i \in 1..Len(store) :
                          /\ store'[i].id = store[i].id
                          /\ store'[i] # store[i] =>
                                /\ store[i].id = existing[p].id
                                /\ store[i].match.request.url = Url(p)
                                /\ store'[i].match.request.url = Url(p)
                 \/ /\ pc[p] = "post"
                    /\ Len(store') = Len(store) + 1
                    /\ SubSeq(store', 1, Len(store)) = store
                    /\ store'[Len(store')].id \notin Ids(store)
                    /\ store'[Len(store')].match.request.url = Url(p)]_vars

\* p updated its rule beside a rule of another url, which is as p listed it
C19_Witness ==
    \E p \in Procs :
        /\ Updated(p)
        /\ Len(store) = 2 /\ Len(limits[p]) = 2
        /\ \E i, j \in 1..2 :
              /\ i # j
              /\ store[i].id = results[p].id
              /\ store[i] # limits[p][i]
              /\ store[i].match.request.url = Url(p)
              /\ store[j].match.request.url # Url(p)
              /\ store[j] = limits[p][j]

NoDup(rules) ==
    \A i, j \in 1..Len(rules) :
        rules[i].match.request.url = rules[j].match.request.url => i = j

\* C20 No duplicates without concurrency (SeqSpec): when no two rules of the
\* zone have the same url, a step of invocations that run one after the
\* other leaves it so, unless it is the post of a caller that passed update
\* as false.
C20_NoDuplicates ==
    [][(/\ NoDup(store)
        /\ ~\E p \in Procs : pc[p] = "post" /\ pc'[p] = "done" /\ ~args[p].update)
          => NoDup(store')]_vars

\* a rule was created beside a rule of another url, then found and left as
\* it is by the next invocation
C20_Witness ==
    /\ NoDup(store) /\ Len(store) = 2 /\ runs = 2
    /\ \E p \in Procs :
          /\ Unchanged(p) /\ args[p].update
          /\ WithUrl(limits[p], Url(p)) = {2}
          /\ store = limits[p]

====
